---- MODULE Spec2Model ----
(***************************************************************************)
(* Model of the OSSF malicious-packages connector                          *)
(* (src/ossf_malicious_packages_connector.py).                             *)
(*                                                                         *)
(* The connector loops forever: each run (_process_once) opens a work      *)
(* record, updates a local clone of the feed repository, reads the         *)
(* checkpoint (connector state), resolves the changed record files,        *)
(* parses them, builds three STIX objects per valid record, sends the      *)
(* objects to the sink in chunks and finally writes the checkpoint.        *)
(*                                                                         *)
(* Abstractions:                                                           *)
(*  - a revision is the index of a commit in the upstream history;         *)
(*  - a path is a record [dir, stem, ext]: its directory components, and   *)
(*    the file name split at its last dot, so that str.endswith(".json")   *)
(*    is ext = ".json";                                                    *)
(*  - a file's content is a record of the JSON features the code looks at; *)
(*  - the clock is the run number (last_run in the checkpoint);            *)
(*  - every call to a collaborator that can raise (git, the OpenCTI API)   *)
(*    succeeds or raises, chosen nondeterministically.                     *)
(***************************************************************************)
EXTENDS Integers, Sequences, FiniteSets, TLC

\* ------------------------------------------------------------------ bounds
MaxCommits == 1    \* upstream commits after the initial one
MaxRuns == 3       \* iterations of the outer loop

\* Chunk size of the dispatch loop. The source uses 5000; the model scales
\* it down keeping 5000 mod 3 = 2, so a chunk boundary falls inside a
\* record's triple exactly as it does in the program.
CHUNK_SIZE == 5

\* ------------------------------------------------------------ Python values
PyNone == "<None>"
NoCommit == 0      \* last_commit is None / the repository is not cloned

Min(a, b) == IF a < b THEN a ELSE b

\* ------------------------------------------------------------------- paths
FeedDir == <<"osv", "malicious">>
JsonExt == ".json"

MkPath(d, s, e) == [dir |-> d, stem |-> s, ext |-> e]

PTop == MkPath(<<"osv", "malicious">>, "MAL-1", ".json")
PDeep == MkPath(<<"osv", "malicious", "npm", "pkg">>, "MAL-2", ".json")
PText == MkPath(<<"osv", "malicious", "npm">>, "README", ".md")
POut == MkPath(<<"osv", "withdrawn">>, "MAL-3", ".json")

\* Every path of the model, in the byte order git prints them.
PathOrder == <<PTop, PText, PDeep, POut>>
Paths == {PathOrder[i] : i \in 1..Len(PathOrder)}
RecordPaths == {PTop, PDeep}

IsPrefix(s, t) == Len(s) <= Len(t) /\ SubSeq(t, 1, Len(s)) = s

\* ---------------------------------------------------------------- contents
MkFile(f, j, t, i, s, d, db, o, fi, h) ==
    [file |-> f, json |-> j, top |-> t, id |-> i, summary |-> s, details |-> d,
     dbspec |-> db, origins |-> o, first |-> fi, sha256 |-> h]

Absent == MkFile("absent", "ok", "dict", PyNone, PyNone, PyNone, "absent", "absent", "dict", PyNone)
Valid1 == MkFile("present", "ok", "dict", "MAL-1", "bad pkg", PyNone, "dict", "list", "dict", "H1")
Valid2 == MkFile("present", "ok", "dict", "MAL-2", PyNone, "details", "dict", "list", "dict", "H2")
Malformed == MkFile("present", "malformed", "dict", PyNone, PyNone, PyNone, "absent", "absent", "dict", PyNone)
NoId == MkFile("present", "ok", "dict", PyNone, "bad pkg", PyNone, "dict", "list", "dict", "H1")
NoDbSpec == MkFile("present", "ok", "dict", "MAL-4", PyNone, PyNone, "absent", "absent", "dict", PyNone)
NoOrigins == MkFile("present", "ok", "dict", "MAL-5", PyNone, PyNone, "dict", "absent", "dict", PyNone)
EmptyOrigins == MkFile("present", "ok", "dict", "MAL-6", PyNone, PyNone, "dict", "empty", "dict", PyNone)
NoSha == MkFile("present", "ok", "dict", "MAL-7", PyNone, PyNone, "dict", "list", "dict", PyNone)
EmptySha == MkFile("present", "ok", "dict", "MAL-8", PyNone, PyNone, "dict", "list", "dict", "")
TopList == MkFile("present", "ok", "list", PyNone, PyNone, PyNone, "absent", "absent", "dict", PyNone)
DbNull == MkFile("present", "ok", "dict", "MAL-9", PyNone, PyNone, "null", "absent", "dict", PyNone)
FirstStr == MkFile("present", "ok", "dict", "MAL-10", PyNone, PyNone, "dict", "list", "str", PyNone)
BadHash == MkFile("present", "ok", "dict", "MAL-11", PyNone, PyNone, "dict", "list", "dict", "abc123")

\* What upstream may put in a record file.
RecordContents == {Valid1, Valid2, Malformed, NoId, NoDbSpec, NoOrigins, EmptyOrigins,
                   NoSha, EmptySha, TopList, DbNull, FirstStr, BadHash}

ContentsOf(p) == IF p \in RecordPaths THEN RecordContents ELSE {Valid1}

EmptyTree == [p \in Paths |-> Absent]

\* The feed when the connector starts: empty; one valid record (the spec's
\* first scenario); records that are all skipped, beside files that are not
\* records; a malformed record before a valid one.
TreeOne == [EmptyTree EXCEPT ![PTop] = Valid1]
TreeSkipped == [p \in Paths |-> IF p = PTop THEN Malformed
                                ELSE IF p = PDeep THEN NoDbSpec ELSE Valid1]
TreeMixed == [p \in Paths |-> IF p = PTop THEN Malformed
                              ELSE IF p = PDeep THEN Valid2 ELSE Valid1]
InitTrees == {EmptyTree, TreeOne, TreeSkipped, TreeMixed}

\* --------------------------------------------------------- change resolution
\* A call's result: the value it returned, or raised = TRUE when it raised.
Returned(v) == [raised |-> FALSE, val |-> v]
Raised(v) == [raised |-> TRUE, val |-> v]

\* os.walk(top) listing only the top directory: the files directly in it.
OsListTopOnly(tree, top) ==
    SelectSeq(PathOrder, LAMBDA p : tree[p].file = "present" /\ p.dir = top)

\* os.walk(top): every file of the working tree under top, at any depth.
OsWalk(tree, top) ==
    SelectSeq(PathOrder, LAMBDA p : tree[p].file = "present" /\ IsPrefix(top, p.dir))

\* git diff --name-only old..new -- pathspec: the paths under pathspec whose
\* content differs between the two trees, a deleted file included.
GitDiffNameOnly(history, old, new, pathspec) ==
    SelectSeq(PathOrder, LAMBDA p : /\ history[old][p] # history[new][p]
                                     /\ IsPrefix(pathspec, p.dir))

EndsWithJson(p) == p.ext = JsonExt

\* _get_changed_files with a failing diff swallowed as "no changes".
GetChangedFilesSwallow(history, old_commit, new_commit, gitOk) ==
    IF old_commit = NoCommit
    THEN Returned(SelectSeq(OsWalk(history[new_commit], FeedDir), EndsWithJson))
    ELSE IF ~gitOk
         THEN Returned(<<>>)
         ELSE Returned(SelectSeq(GitDiffNameOnly(history, old_commit, new_commit, FeedDir),
                                 EndsWithJson))

\* _get_changed_files(old_commit, new_commit). The working tree walked in
\* the first-run branch is the checkout of new_commit (the local HEAD).
\* gitOk: whether the git diff subprocess exits with status 0.
GetChangedFiles(history, old_commit, new_commit, gitOk) ==
    IF old_commit = NoCommit
    THEN Returned(SelectSeq(OsWalk(history[new_commit], FeedDir), EndsWithJson))
    ELSE IF ~gitOk
         THEN Raised(<<>>)
         ELSE Returned(SelectSeq(GitDiffNameOnly(history, old_commit, new_commit, FeedDir),
                                 EndsWithJson))

\* ------------------------------------------------------- parsing, building
\* Python truthiness of a parsed JSON top-level value / of a string.
TruthyTop(t) == t \in {"dict", "list"}
TruthyStr(s) == s # PyNone /\ s # ""

\* _parse_osv_json without its try/except: a file that cannot be opened or
\* decoded raises.
ParseOsvJsonNoCatch(tree, file_path) ==
    IF tree[file_path].file = "absent" \/ tree[file_path].json = "malformed"
    THEN Raised(Absent)
    ELSE Returned(tree[file_path])

\* _parse_osv_json: the decoded value; None (val = Absent, isNone) when the
\* file cannot be opened or is not JSON. It never raises.
ParseOsvJson(tree, file_path) ==
    IF tree[file_path].file = "absent" \/ tree[file_path].json = "malformed"
    THEN Returned(Absent)
    ELSE Returned(tree[file_path])

IsNoneParsed(c) == c.file = "absent"

\* _build_github_blob_url: repo root, /blob/, the commit, the relative path.
BuildGithubBlobUrl(file_path, commit) == [commit |-> commit, path |-> file_path]
NoUrl == [commit |-> NoCommit, path |-> PTop]

\* stix2 accepts a SHA-256 hash only if it is 64 hexadecimal digits; H1 and
\* H2 stand for such values.
ValidSha256(h) == h \in {"H1", "H2"}

Summary(osv) == IF TruthyStr(osv.summary) THEN osv.summary
                ELSE IF TruthyStr(osv.details) THEN osv.details
                ELSE "Malicious package"

Pattern(sha256) == <<"[file:hashes.'SHA-256' = '", sha256, "']">>

\* Identifiers. Each generator is a UUIDv5 of its inputs: a deterministic,
\* collision-free function of them, modelled as the tuple of the inputs.
\* stix2.File derives its id from its id-contributing properties, here
\* hashes and name; pycti's Indicator.generate_id hashes the pattern;
\* StixCoreRelationship.generate_id hashes the kind and the two ends.
FileId(name, sha256) == <<"file", name, sha256>>
IndicatorId(pattern) == <<"indicator">> \o pattern
RelationshipId(relationship_type, source_ref, target_ref) ==
    <<"relationship", relationship_type>> \o source_ref \o target_ref

MkObject(t, i, n, d, h, u) ==
    [type |-> t, id |-> i, name |-> n, description |-> d, sha256 |-> h, url |-> u]

FileSco(osv, sha256) ==
    MkObject("file", FileId(osv.id, sha256), osv.id, Summary(osv), sha256, NoUrl)

\* The indicator with an identifier derived from its external reference (the
\* blob URL, which names the revision) instead of from the pattern.
IndicatorObjUrlId(osv, sha256, url) ==
    MkObject("indicator", <<"indicator", url.commit, url.path.stem>>, osv.id,
             Summary(osv), sha256, url)

IndicatorObj(osv, sha256, url) ==
    MkObject("indicator", IndicatorId(Pattern(sha256)), osv.id, Summary(osv), sha256, url)

RelationObj(osv, sha256, source_ref, target_ref) ==
    MkObject("relationship", RelationshipId("based-on", source_ref, target_ref),
             osv.id, "based-on", sha256, NoUrl)

\* Lines 194-247: the three objects of a record with an id and a hash.
Triple(osv, sha256, source_url) ==
    LET file_sco == FileSco(osv, sha256)
        indicator == IndicatorObj(osv, sha256, source_url)
    IN  <<file_sco, indicator, RelationObj(osv, sha256, indicator.id, file_sco.id)>>

\* database_specific...origins[0].sha256 as lines 183-188 read it.
\* raised: an attribute error on a value that is not a dict.
ExtractSha256(osv) ==
    IF osv.dbspec = "null" THEN Raised(PyNone)
    ELSE IF osv.dbspec = "absent" \/ osv.origins # "list" THEN Returned(PyNone)
    ELSE IF osv.first # "dict" THEN Raised(PyNone)
    ELSE Returned(osv.sha256)

\* _create_objects_for_entry appending the observable as soon as the id is
\* known, before the hash is checked.
CreateObjectsEarlyAppend(osv, source_url) ==
    IF osv.top # "dict" THEN Raised(<<>>)
    ELSE IF ~TruthyStr(osv.id) THEN Returned(<<>>)
    ELSE LET sha == ExtractSha256(osv) IN
         IF sha.raised THEN Raised(<<>>)
         ELSE IF ~TruthyStr(sha.val) THEN Returned(<<FileSco(osv, sha.val)>>)
         ELSE IF ~ValidSha256(sha.val) THEN Raised(<<>>)
         ELSE Returned(Triple(osv, sha.val, source_url))

\* _create_objects_for_entry(osv_data, source_url): the list it returns, or
\* raised when an exception leaves it (no list is returned then).
CreateObjectsForEntry(osv, source_url) ==
    IF osv.top # "dict" THEN Raised(<<>>)
    ELSE IF ~TruthyStr(osv.id) THEN Returned(<<>>)
    ELSE LET sha == ExtractSha256(osv) IN
         IF sha.raised THEN Raised(<<>>)
         ELSE IF ~TruthyStr(sha.val) THEN Returned(<<>>)
         ELSE IF ~ValidSha256(sha.val) THEN Raised(<<>>)
         ELSE Returned(Triple(osv, sha.val, source_url))

\* ---------------------------------------------------------------- dispatch
\* The names bound in _process_once when line 310 is evaluated (locals; the
\* module has no global and Python no builtin of the name looked up there).
NamesInScope == {"self", "friendly_name", "work_id", "current_head", "state",
                 "last_commit", "changed_files", "all_objects", "file_path",
                 "parsed", "github_url", "objs", "CHUNK_SIZE", "total",
                 "chunk_index", "i", "chunk"}

\* The name line 310 passes to stix2_create_bundle.
BundleArg == "chunck"

NumChunks(total) == (total + CHUNK_SIZE - 1) \div CHUNK_SIZE

\* The result of the try block of lines 305-319: whether and in which chunk
\* an exception was raised (raised, at, cause), the chunks handed to
\* send_stix2_bundle calls that returned (sends), and the locals chunk_index
\* and chunk as the block leaves them.
LoopResult(r, a, c, s, ci, ch) ==
    [raised |-> r, at |-> a, cause |-> c, sends |-> s, chunk_index |-> ci, chunk |-> ch]

\* The dispatch loop with the try/except inside it, logging a failed chunk
\* and going on to the next one: it never raises.
RECURSIVE SendChunksSwallow(_, _, _, _)
SendChunksSwallow(all_objects, i, chunk_index, failAt) ==
    IF i >= Len(all_objects)
    THEN LoopResult(FALSE, 0, "none", <<>>, chunk_index, <<>>)
    ELSE LET k == chunk_index + 1
             chunk == SubSeq(all_objects, i + 1, Min(i + CHUNK_SIZE, Len(all_objects)))
             rest == SendChunksSwallow(all_objects, i + CHUNK_SIZE, k, failAt)
             last == IF rest.chunk = <<>> THEN chunk ELSE rest.chunk
         IN  IF BundleArg \notin NamesInScope \/ failAt = k
             THEN [rest EXCEPT !.chunk = last]
             ELSE [rest EXCEPT !.sends = <<chunk>> \o rest.sends, !.chunk = last]

\* The dispatch loop with the try/except inside it, remembering the first
\* failure and raising it only after every chunk has been attempted.
RECURSIVE SendChunksContinue(_, _, _, _)
SendChunksContinue(all_objects, i, chunk_index, failAt) ==
    IF i >= Len(all_objects)
    THEN LoopResult(FALSE, 0, "none", <<>>, chunk_index, <<>>)
    ELSE LET k == chunk_index + 1
             chunk == SubSeq(all_objects, i + 1, Min(i + CHUNK_SIZE, Len(all_objects)))
             rest == SendChunksContinue(all_objects, i + CHUNK_SIZE, k, failAt)
             last == IF rest.chunk = <<>> THEN chunk ELSE rest.chunk
         IN  IF BundleArg \notin NamesInScope
             THEN [rest EXCEPT !.raised = TRUE, !.at = k, !.cause = "NameError",
                               !.chunk = last]
             ELSE IF failAt = k
             THEN [rest EXCEPT !.raised = TRUE, !.at = k, !.cause = "send", !.chunk = last]
             ELSE [rest EXCEPT !.sends = <<chunk>> \o rest.sends, !.chunk = last]

\* The try block of lines 305-319 from offset i on. Evaluating an unbound
\* name raises NameError before stix2_create_bundle is called; failAt is the
\* index of the chunk whose send the sink fails (0: the sink accepts every
\* bundle). An exception ends the loop: the except clause is outside it.
RECURSIVE SendChunks(_, _, _, _)
SendChunks(all_objects, i, chunk_index, failAt) ==
    IF i >= Len(all_objects)
    THEN LoopResult(FALSE, 0, "none", <<>>, chunk_index, <<>>)
    ELSE LET k == chunk_index + 1
             chunk == SubSeq(all_objects, i + 1, Min(i + CHUNK_SIZE, Len(all_objects)))
         IN  IF BundleArg \notin NamesInScope
             THEN LoopResult(TRUE, k, "NameError", <<>>, k, chunk)
             ELSE IF failAt = k
             THEN LoopResult(TRUE, k, "send", <<>>, k, chunk)
             ELSE LET rest == SendChunks(all_objects, i + CHUNK_SIZE, k, failAt)
                  IN  [rest EXCEPT !.sends = <<chunk>> \o rest.sends,
                                   !.chunk = IF rest.chunk = <<>> THEN chunk ELSE rest.chunk]

\* Lines 294-296 returning when there is nothing to send, instead of going
\* on to step 6.
AfterNothingToSendReturn == "sleep"

\* Where _process_once goes when all_objects is empty (lines 294-296): on to
\* step 6, the state update.
AfterNothingToSend == "set_state"

\* The except clause of lines 321-328 falling through to step 6 instead of
\* returning.
AfterBundleFailureFallThrough == "set_state"

\* Where _process_once goes after the except clause of lines 321-328: it
\* returns to run(), which sleeps.
AfterBundleFailure == "sleep"

\* ------------------------------------------------------------------- state
VARIABLES
    commits,        \* upstream history: commits[r] is the tree of revision r
    localHead,      \* HEAD of the local clone (NoCommit: not cloned yet)
    state,          \* the persisted connector state (checkpoint)
    pc,             \* where run() / _process_once stands
    runNo,          \* number of runs started; the clock of last_run
    work,           \* status of the work record opened by the current run
    current_head,   \* local of _process_once
    last_commit,    \* local of _process_once
    changed_files,  \* local of _process_once
    idx,            \* position of the for loop of line 282 in changed_files
    all_objects,    \* local of _process_once
    sent,           \* bundles the sink accepted in the current run, in order
    failedChunk,    \* chunk in which the try block of the run raised (0: none)
    failCause,      \* what raised there: "none", "NameError" or "send"
    chunk_index,    \* local of _process_once (0 before the loop)
    chunk,          \* local of _process_once: the slice assigned last
    outcome,        \* how the current run ended
    raisedAt,       \* the step whose exception left _process_once
    gitFailed,      \* the git step of the run that exited non-zero
    stateAtStart,   \* the checkpoint when the current run started
    getStateCalls,  \* calls of get_state in the current run
    setStateCalls,  \* calls of set_state in the current run
    lastEntry,      \* argument of the latest _create_objects_for_entry call
    lastObjs,       \* its result
    built,          \* every triple built so far: record, identifiers, where
    prev            \* the previous run, if it ended in a failed dispatch

vars == <<commits, localHead, state, pc, runNo, work, current_head, last_commit,
          changed_files, idx, all_objects, sent, failedChunk, failCause,
          chunk_index, chunk, outcome, raisedAt, gitFailed, stateAtStart,
          getStateCalls, setStateCalls, lastEntry, lastObjs, built, prev>>

localVars == <<current_head, last_commit, changed_files, idx, all_objects>>
sinkVars == <<sent, failedChunk, failCause, chunk_index, chunk>>
buildVars == <<lastEntry, lastObjs>>
auxVars == <<stateAtStart, getStateCalls, setStateCalls>>

NoPrev == [failed |-> FALSE, head |-> NoCommit, changed |-> <<>>, objects |-> <<>>]

\* What a run that ended in a failed dispatch leaves for the comparison with
\* the next run: its revision, change set and objects.
PrevOf(out, head, changed, objects) ==
    IF out = "send_failed"
    THEN [failed |-> TRUE, head |-> head, changed |-> changed, objects |-> objects]
    ELSE NoPrev

\* The record of one built triple.
BuiltOf(objs, run, commit, pos) ==
    [name |-> objs[1].name, sha256 |-> objs[1].sha256, indicator |-> objs[2].id,
     relationship |-> objs[3].id, run |-> run, commit |-> commit, pos |-> pos]

NoState == [present |-> FALSE, last_commit |-> NoCommit, last_run |-> 0]

\* state.get under a misspelt key: always None.
LastCommitWrongKey(st) == NoCommit

\* (get_state() or {}).get("last_commit") of lines 267-268.
LastCommitOf(st) == IF st.present THEN st.last_commit ELSE NoCommit

\* new_state with the revision stored under a misspelt key: reading
\* "last_commit" back gives None.
NewStateWrongKey(head, now) == [present |-> TRUE, last_commit |-> NoCommit, last_run |-> now]

\* new_state of lines 331-334.
NewState(head, now) == [present |-> TRUE, last_commit |-> head, last_run |-> now]

Init ==
    /\ commits \in {<<t>> : t \in InitTrees}
    /\ localHead = NoCommit
    /\ state = NoState
    /\ pc = "idle"
    /\ runNo = 0
    /\ work = "none"
    /\ current_head = NoCommit
    /\ last_commit = NoCommit
    /\ changed_files = <<>>
    /\ idx = 1
    /\ all_objects = <<>>
    /\ sent = <<>>
    /\ failedChunk = 0
    /\ failCause = "none"
    /\ outcome = "none"
    /\ raisedAt = "none"
    /\ gitFailed = "none"
    /\ stateAtStart = NoState
    /\ getStateCalls = 0
    /\ setStateCalls = 0
    /\ lastEntry = Absent
    /\ lastObjs = Returned(<<>>)
    /\ built = {}
    /\ prev = NoPrev
    /\ chunk_index = 0
    /\ chunk = <<>>

\* ----------------------------------------------------------------- actions
\* An exception leaving _process_once with no try/except in run(): it leaves
\* the while loop and the connector stops.
RaiseUncaught(where) ==
    /\ pc' = "stopped"
    /\ outcome' = "raised"
    /\ raisedAt' = where

\* An exception leaves _process_once: run() logs it (lines 353-354) and goes
\* on to sleep. Nothing else is done: the work record stays as it is.
RaiseToRun(where) ==
    /\ pc' = "sleep"
    /\ outcome' = "raised"
    /\ raisedAt' = where

NoRaise == UNCHANGED <<outcome, raisedAt>>

\* Upstream pushes a commit changing one file (added, modified or deleted).
\* The local clone sees upstream only in _init_or_update_repo, so a push
\* during a run is the same as one before the next run.
UpstreamCommit ==
    /\ pc = "idle"
    /\ Len(commits) < 1 + MaxCommits
    /\ \E p \in Paths : \E c \in ContentsOf(p) \cup {Absent} :
          /\ c # commits[Len(commits)][p]
          /\ commits' = Append(commits, [commits[Len(commits)] EXCEPT ![p] = c])
    /\ UNCHANGED <<localHead, state, pc, runNo, work, outcome, raisedAt, gitFailed>>
    /\ UNCHANGED <<localVars, sinkVars, buildVars, auxVars>>
    /\ UNCHANGED <<built, prev>>

\* run() calls _process_once, which opens the work record (lines 254-260).
StartRun ==
    /\ pc = "idle"
    /\ runNo < MaxRuns
    /\ runNo' = runNo + 1
    /\ current_head' = NoCommit
    /\ last_commit' = NoCommit
    /\ changed_files' = <<>>
    /\ idx' = 1
    /\ all_objects' = <<>>
    /\ sent' = <<>>
    /\ failedChunk' = 0
    /\ failCause' = "none"
    /\ chunk_index' = 0
    /\ chunk' = <<>>
    /\ prev' = PrevOf(outcome, current_head, changed_files, all_objects)
    /\ gitFailed' = "none"
    /\ stateAtStart' = state
    /\ getStateCalls' = 0
    /\ setStateCalls' = 0
    /\ \E ok \in BOOLEAN :
          IF ok THEN /\ work' = "open"
                     /\ pc' = "update_repo"
                     /\ outcome' = "running"
                     /\ raisedAt' = "none"
                ELSE /\ work' = "none"
                     /\ RaiseToRun("initiate_work")
    /\ UNCHANGED <<commits, localHead, state, buildVars, built>>

\* _init_or_update_repo (line 263): clone or fetch/checkout/pull; any git
\* command exiting non-zero raises CalledProcessError.
InitOrUpdateRepo ==
    /\ pc = "update_repo"
    /\ \E ok \in BOOLEAN :
          IF ok THEN /\ localHead' = Len(commits)
                     /\ pc' = "get_head"
                     /\ NoRaise
                     /\ UNCHANGED gitFailed
                ELSE /\ UNCHANGED localHead
                     /\ gitFailed' = "update"
                     /\ RaiseToRun("update_repo")
    /\ UNCHANGED <<commits, state, runNo, work>>
    /\ UNCHANGED <<localVars, sinkVars, buildVars, auxVars>>
    /\ UNCHANGED <<built, prev>>

\* _get_current_head (line 264).
GetCurrentHead ==
    /\ pc = "get_head"
    /\ \E ok \in BOOLEAN :
          IF ok THEN /\ current_head' = localHead
                     /\ pc' = "get_state"
                     /\ NoRaise
                     /\ UNCHANGED gitFailed
                ELSE /\ UNCHANGED current_head
                     /\ gitFailed' = "head"
                     /\ RaiseToRun("get_head")
    /\ UNCHANGED <<commits, localHead, state, runNo, work>>
    /\ UNCHANGED <<last_commit, changed_files, idx, all_objects>>
    /\ UNCHANGED <<sinkVars, buildVars, auxVars>>
    /\ UNCHANGED <<built, prev>>

\* state = get_state() or {}; last_commit = state.get("last_commit")
\* (lines 267-268).
GetState ==
    /\ pc = "get_state"
    /\ last_commit' = LastCommitOf(state)
    /\ getStateCalls' = getStateCalls + 1
    /\ pc' = "resolve"
    /\ UNCHANGED <<commits, localHead, state, runNo, work, outcome, raisedAt, gitFailed>>
    /\ UNCHANGED <<current_head, changed_files, idx, all_objects>>
    /\ UNCHANGED <<sinkVars, buildVars, stateAtStart, setStateCalls>>
    /\ UNCHANGED <<built, prev>>

\* changed_files = _get_changed_files(last_commit, current_head) (line 274).
\* gitOk matters only when git diff is run, that is with a previous commit.
ResolveChanges ==
    /\ pc = "resolve"
    /\ \E gitOk \in BOOLEAN :
          LET r == GetChangedFiles(commits, last_commit, current_head, gitOk) IN
          /\ gitFailed' = IF last_commit # NoCommit /\ ~gitOk THEN "diff" ELSE gitFailed
          /\ IF r.raised THEN /\ UNCHANGED changed_files
                              /\ RaiseToRun("resolve")
                         ELSE /\ changed_files' = r.val
                              /\ pc' = "parse"
                              /\ NoRaise
    /\ idx' = 1
    /\ all_objects' = <<>>
    /\ UNCHANGED <<commits, localHead, state, runNo, work>>
    /\ UNCHANGED <<current_head, last_commit, sinkVars, buildVars, auxVars>>
    /\ UNCHANGED <<built, prev>>

\* One iteration of the for loop of lines 282-292.
ProcessFile ==
    /\ pc = "parse"
    /\ idx <= Len(changed_files)
    /\ LET file_path == changed_files[idx]
           parsed == ParseOsvJson(commits[localHead], file_path)
       IN  IF parsed.raised
           THEN /\ RaiseToRun("parse")
                /\ UNCHANGED <<idx, all_objects, buildVars, built>>
           ELSE IF IsNoneParsed(parsed.val) \/ ~TruthyTop(parsed.val.top)
           THEN /\ idx' = idx + 1
                /\ NoRaise
                /\ UNCHANGED <<pc, all_objects, buildVars, built>>
           ELSE LET github_url == BuildGithubBlobUrl(file_path, current_head)
                    objs == CreateObjectsForEntry(parsed.val, github_url)
                IN  /\ lastEntry' = parsed.val
                    /\ lastObjs' = objs
                    /\ IF objs.raised
                       THEN /\ RaiseToRun("build")
                            /\ UNCHANGED <<idx, all_objects, built>>
                       ELSE /\ idx' = idx + 1
                            /\ all_objects' = all_objects \o objs.val
                            /\ built' = IF Len(objs.val) < 3 THEN built
                                        ELSE built \cup {BuiltOf(objs.val, runNo,
                                                                 current_head, idx)}
                            /\ NoRaise
                            /\ UNCHANGED pc
    /\ UNCHANGED <<commits, localHead, state, runNo, work, gitFailed>>
    /\ UNCHANGED <<current_head, last_commit, changed_files, sinkVars, auxVars, prev>>

\* Lines 294-328: nothing to send, or the chunked dispatch with its except
\* clause, which marks the work record (to_processed may raise in turn).
SendBundles ==
    /\ pc = "parse"
    /\ idx > Len(changed_files)
    /\ IF all_objects = <<>>
       THEN /\ pc' = AfterNothingToSend
            /\ NoRaise
            /\ UNCHANGED <<sinkVars, work>>
       ELSE \E failAt \in 0..NumChunks(Len(all_objects)) : \E apiOk \in BOOLEAN :
            LET r == SendChunks(all_objects, 0, 0, failAt) IN
            /\ sent' = sent \o r.sends
            /\ failedChunk' = r.at
            /\ failCause' = r.cause
            /\ chunk_index' = r.chunk_index
            /\ chunk' = r.chunk
            /\ IF r.raised
               THEN IF apiOk THEN /\ work' = "failed"
                                  /\ pc' = AfterBundleFailure
                                  /\ outcome' = "send_failed"
                                  /\ UNCHANGED raisedAt
                             ELSE /\ UNCHANGED work
                                  /\ RaiseToRun("mark_failed")
               ELSE /\ pc' = "set_state"
                    /\ NoRaise
                    /\ UNCHANGED work
    /\ UNCHANGED <<commits, localHead, state, runNo, gitFailed>>
    /\ UNCHANGED <<localVars, buildVars, auxVars>>
    /\ UNCHANGED <<built, prev>>

\* helper.set_state(new_state) (lines 331-336).
SetState ==
    /\ pc = "set_state"
    /\ state' = NewState(current_head, runNo)
    /\ setStateCalls' = setStateCalls + 1
    /\ pc' = "mark_processed"
    /\ UNCHANGED <<commits, localHead, runNo, work, outcome, raisedAt, gitFailed>>
    /\ UNCHANGED <<localVars, sinkVars, buildVars, stateAtStart, getStateCalls>>
    /\ UNCHANGED <<built, prev>>

\* work.to_processed(work_id, message) (lines 339-344), then back in run().
MarkProcessed ==
    /\ pc = "mark_processed"
    /\ \E ok \in BOOLEAN :
          IF ok THEN /\ work' = "done"
                     /\ pc' = "sleep"
                     /\ outcome' = IF outcome = "running" THEN "ok" ELSE outcome
                     /\ UNCHANGED raisedAt
                ELSE /\ UNCHANGED work
                     /\ RaiseToRun("mark_processed")
    /\ UNCHANGED <<commits, localHead, state, runNo, gitFailed>>
    /\ UNCHANGED <<localVars, sinkVars, buildVars, auxVars>>
    /\ UNCHANGED <<built, prev>>

\* time.sleep(run_interval) (lines 355-358), then the next iteration.
Sleep ==
    /\ pc = "sleep"
    /\ pc' = "idle"
    /\ UNCHANGED <<commits, localHead, state, runNo, work, outcome, raisedAt, gitFailed>>
    /\ UNCHANGED <<localVars, sinkVars, buildVars, auxVars>>
    /\ UNCHANGED <<built, prev>>

Next ==
    \/ UpstreamCommit
    \/ StartRun
    \/ InitOrUpdateRepo
    \/ GetCurrentHead
    \/ GetState
    \/ ResolveChanges
    \/ ProcessFile
    \/ SendBundles
    \/ SetState
    \/ MarkProcessed
    \/ Sleep

Spec == Init /\ [][Next]_vars

TypeOK ==
    /\ Len(commits) \in 1..(1 + MaxCommits)
    /\ localHead \in 0..Len(commits)
    /\ state.last_commit \in 0..Len(commits)
    /\ runNo \in 0..MaxRuns
    /\ work \in {"none", "open", "failed", "done"}
    /\ outcome \in {"none", "running", "ok", "send_failed", "raised"}
    /\ failCause \in {"none", "NameError", "send"}
    /\ gitFailed \in {"none", "update", "head", "diff"}
    /\ Len(all_objects) % 3 = 0

\* ------------------------------------------------------------------ claims
RECURSIVE Flatten(_)
Flatten(ss) == IF ss = <<>> THEN <<>> ELSE Head(ss) \o Flatten(Tail(ss))

Range(f) == {f[i] : i \in DOMAIN f}

C2_ValidRecordDelivered ==
    (/\ pc = "sleep"
     /\ outcome # "raised"
     /\ idx > Len(changed_files)
     /\ all_objects # <<>>
     /\ failCause # "send")
    => /\ Flatten(sent) = all_objects
       /\ state.last_commit = current_head

\* C3: when no send fails, the dispatch loop issues ceil(L/C) sends, each of
\* at most C objects, whose concatenation is the accumulated list.
C3_ChunkedSends ==
    (/\ pc = "sleep"
     /\ outcome # "raised"
     /\ idx > Len(changed_files)
     /\ failCause # "send")
    => /\ Len(sent) * CHUNK_SIZE >= Len(all_objects)
       /\ Len(all_objects) > (Len(sent) - 1) * CHUNK_SIZE
       /\ \A k \in 1..Len(sent) : Len(sent[k]) <= CHUNK_SIZE
       /\ Flatten(sent) = all_objects

\* C4: once set_state has been called in a run, every object the run
\* accumulated (possibly none) has been handed to a send that returned, no
\* dispatch failed, and nothing more is sent in that run.
C4_CheckpointAfterFullDispatch ==
    setStateCalls > 0 => /\ failedChunk = 0
                         /\ Flatten(sent) = all_objects

\* A run whose changed records were all skipped wrote the checkpoint.
C4_Witness ==
    /\ setStateCalls = 1
    /\ Len(changed_files) > 0
    /\ all_objects = <<>>
    /\ sent = <<>>
    /\ state.last_commit = current_head

\* C5: within a run the checkpoint is read at most once and written at most
\* once; it is either untouched or, once written, holds the revision read in
\* that run.
C5_CheckpointAtomic ==
    /\ getStateCalls <= 1
    /\ setStateCalls <= 1
    /\ IF setStateCalls = 0
       THEN state = stateAtStart
       ELSE /\ state.last_commit = current_head
            /\ current_head # NoCommit
            /\ getStateCalls = 1

\* A run that started from a checkpoint at one revision ended with the
\* checkpoint at another.
C5_Witness ==
    /\ pc = "sleep"
    /\ stateAtStart.present
    /\ setStateCalls = 1
    /\ state.last_commit # stateAtStart.last_commit

\* The records the claim C6 is about: malformed JSON, no id, no hash (origin
\* list missing, empty, or first entry without sha256).
MalformedJson(c) == c.file = "present" /\ c.json = "malformed"
WellFormedObject(c) == c.file = "present" /\ c.json = "ok" /\ c.top = "dict"
HasNoId(c) == WellFormedObject(c) /\ ~TruthyStr(c.id)
HasNoHash(c) ==
    /\ WellFormedObject(c)
    /\ \/ c.dbspec = "absent"
       \/ c.dbspec = "dict" /\ c.origins \in {"absent", "empty"}
       \/ c.dbspec = "dict" /\ c.origins = "list" /\ c.first = "dict" /\ ~TruthyStr(c.sha256)
Skippable(c) == MalformedJson(c) \/ HasNoId(c) \/ HasNoHash(c)

\* C6: the loop iteration on a changed path whose record is malformed, has
\* no id or has no hash goes on to the next path with the accumulated
\* objects kept and without aborting the run.
C6_SkipWithoutAbort ==
    [][(/\ pc = "parse"
        /\ idx <= Len(changed_files)
        /\ Skippable(commits[localHead][changed_files[idx]]))
       => /\ pc' = "parse"
          /\ idx' = idx + 1
          /\ all_objects' = all_objects
          /\ outcome' = outcome]_vars

\* A malformed record was skipped and the valid record after it was built.
C6_Witness ==
    /\ pc = "parse"
    /\ idx = 3
    /\ MalformedJson(commits[localHead][changed_files[1]])
    /\ Len(all_objects) = 3
    /\ outcome = "running"

MissingIdOrHash(osv) ==
    \/ ~TruthyStr(osv.id)
    \/ ~(osv.dbspec = "dict" /\ osv.origins = "list" /\ osv.first = "dict"
         /\ TruthyStr(osv.sha256))

\* C7: _create_objects_for_entry yields zero objects or the three objects
\* observable, indicator, relationship in that order; zero whenever the id
\* or the first-origin hash is missing or empty.
C7_AtomicTriple ==
    /\ Len(lastObjs.val) \in {0, 3}
    /\ Len(lastObjs.val) = 3 =>
          /\ lastObjs.val[1].type = "file"
          /\ lastObjs.val[2].type = "indicator"
          /\ lastObjs.val[3].type = "relationship"
    /\ MissingIdOrHash(lastEntry) => lastObjs.val = <<>>

\* A record with an id and no hash went through the builder, which returned.
C7_Witness ==
    /\ TruthyStr(lastEntry.id)
    /\ HasNoHash(lastEntry)
    /\ ~lastObjs.raised
    /\ lastObjs.val = <<>>

\* C8: when a git step of the run fails (update, rev-parse, or the diff
\* between the checkpoint revision and the current one), the run aborts: no
\* bundle is sent, set_state is not called, the checkpoint is untouched.
C8_AbortOnRepositoryFailure ==
    gitFailed # "none" => /\ pc \in {"sleep", "idle"}
                          /\ outcome = "raised"
                          /\ sent = <<>>
                          /\ setStateCalls = 0
                          /\ state = stateAtStart

\* The diff of a run with a checkpoint and a newer revision failed.
C8_Witness ==
    /\ gitFailed = "diff"
    /\ pc = "sleep"
    /\ last_commit # NoCommit
    /\ current_head # last_commit

AddedOrModified(old, new, p) ==
    /\ commits[new][p].file = "present"
    /\ commits[old][p] # commits[new][p]

\* C9: with a checkpoint at A and the head at B, the resolved paths are
\* exactly the .json paths under the feed subtree added or modified between
\* A and B; a deleted record is not among them.
C9_OnlyAddedOrModified ==
    (pc = "parse" /\ last_commit # NoCommit)
    => Range(changed_files) =
          {p \in Paths : /\ AddedOrModified(last_commit, current_head, p)
                         /\ IsPrefix(FeedDir, p.dir)
                         /\ p.ext = JsonExt}

\* C10: with no checkpoint, the resolved paths are exactly the .json files
\* of the working tree under the feed subtree, at any depth, each once.
C10_FullBackfill ==
    (pc = "parse" /\ last_commit = NoCommit)
    => /\ Range(changed_files) =
             {p \in Paths : /\ commits[current_head][p].file = "present"
                            /\ IsPrefix(FeedDir, p.dir)
                            /\ p.ext = JsonExt}
       /\ Cardinality(Range(changed_files)) = Len(changed_files)

\* A first run resolved a record two directories below the feed root while
\* the tree also holds a non-record file in the subtree and a .json file
\* outside it.
C10_Witness ==
    /\ pc = "parse"
    /\ last_commit = NoCommit
    /\ PDeep \in Range(changed_files)
    /\ commits[current_head][PText].file = "present"
    /\ commits[current_head][POut].file = "present"

\* The k-th chunk of a list: objects (k-1)*CHUNK_SIZE+1 .. k*CHUNK_SIZE.
ChunkAt(objects, k) ==
    SubSeq(objects, (k - 1) * CHUNK_SIZE + 1, Min(k * CHUNK_SIZE, Len(objects)))

C12_LoopNeverStops ==
    /\ pc \in {"idle", "update_repo", "get_head", "get_state", "resolve", "parse",
               "set_state", "mark_processed", "sleep"}
    /\ outcome \in {"raised", "send_failed"} => pc \in {"sleep", "idle"}
    /\ pc = "sleep" => ENABLED Sleep
    /\ (pc = "idle" /\ runNo < MaxRuns) => ENABLED StartRun

\* A run is under way after a run that aborted in dispatch.
C12_Witness ==
    /\ prev.failed
    /\ runNo >= 2
    /\ pc = "update_repo"
    /\ outcome = "running"

\* C13: when an aborted run is over, the work record it opened is marked
\* failed; none is left open.
C13_AbortedRunMarksWorkFailed ==
    (/\ pc = "idle"
     /\ outcome \in {"raised", "send_failed"}
     /\ raisedAt # "initiate_work")
    => work = "failed"

\* C14: two triples built from the same record (same id, same hash) have the
\* same Indicator identifier and the same Relationship identifier.
C14_IdempotentIdentity ==
    \A a \in built : \A b \in built :
       (a.name = b.name /\ a.sha256 = b.sha256)
       => (a.indicator = b.indicator /\ a.relationship = b.relationship)

\* The same record was built in two runs, at two revisions and at two
\* positions of the change set.
C14_Witness ==
    \E a \in built : \E b \in built :
       /\ a.name = b.name
       /\ a.sha256 = b.sha256
       /\ a.run # b.run
       /\ a.commit # b.commit
       /\ a.pos # b.pos

\* C15: a run that went through with nothing accumulated sent nothing,
\* succeeded and left the checkpoint at the current revision.
C15_EmptyRunAdvances ==
    (/\ pc \in {"sleep", "idle"}
     /\ runNo > 0
     /\ raisedAt = "none"
     /\ all_objects = <<>>)
    => /\ outcome = "ok"
       /\ work = "done"
       /\ sent = <<>>
       /\ chunk_index = 0
       /\ setStateCalls = 1
       /\ state.last_commit = current_head

\* A run whose only changed records were skipped, one of them lacking
\* database_specific, succeeded and moved the checkpoint.
C15_Witness ==
    /\ pc = "sleep"
    /\ outcome = "ok"
    /\ \E i \in 1..Len(changed_files) : commits[localHead][changed_files[i]] = NoDbSpec
    /\ all_objects = <<>>
    /\ sent = <<>>
    /\ state.last_commit = current_head
    /\ state # stateAtStart

\* C16: the run after a run that aborted in dispatch, at the same head and
\* with a sink that refuses nothing, resolves the same change set, builds
\* objects with the same identifiers, attempts the dispatch again and
\* advances the checkpoint.
C16_RetryAfterDispatchFailure ==
    (/\ prev.failed
     /\ pc = "sleep"
     /\ raisedAt = "none"
     /\ current_head = prev.head
     /\ failCause # "send")
    => /\ changed_files = prev.changed
       /\ Len(all_objects) = Len(prev.objects)
       /\ \A i \in 1..Len(all_objects) : all_objects[i].id = prev.objects[i].id
       /\ chunk_index >= 1
       /\ state.last_commit = current_head

\* C17: whatever a record file holds, the loop iteration on it goes on to the
\* next path without aborting the run.
C17_NoRecordAbortsRun ==
    [][(pc = "parse" /\ idx <= Len(changed_files))
       => /\ pc' = "parse"
          /\ idx' = idx + 1
          /\ outcome' = outcome]_vars

\* The positions of all_objects covered by the chunk assigned last.
InChunk(pos) ==
    /\ chunk # <<>>
    /\ (chunk_index - 1) * CHUNK_SIZE < pos
    /\ pos <= (chunk_index - 1) * CHUNK_SIZE + Len(chunk)

\* C18: a chunk holds all three objects of a record or none of them, and so
\* does what the sink has been handed.
C18_TripleInOneBundle ==
    \A t \in 1..(Len(all_objects) \div 3) :
       /\ chunk # <<>> => (InChunk(3 * t - 2) <=> InChunk(3 * t))
       /\ (3 * t - 2 <= Len(Flatten(sent))) <=> (3 * t <= Len(Flatten(sent)))

\* C19: a run that starts with a saved checkpoint at R reads R as its
\* previous revision and resolves only paths that differ between R and the
\* head; a run does the full backfill only if no checkpoint was ever saved.
C19_CheckpointRoundTrip ==
    (pc = "parse")
    => /\ stateAtStart.present =>
             /\ last_commit = stateAtStart.last_commit
             /\ last_commit # NoCommit
             /\ \A p \in Range(changed_files) :
                   commits[last_commit][p] # commits[current_head][p]
       /\ last_commit = NoCommit => (~stateAtStart.present /\ state = NoState)

\* A run started from a saved checkpoint older than the head and resolved
\* fewer paths than the feed holds.
C19_Witness ==
    /\ pc = "parse"
    /\ stateAtStart.present
    /\ last_commit = stateAtStart.last_commit
    /\ current_head # last_commit
    /\ Len(changed_files) = 1
    /\ Len(SelectSeq(OsWalk(commits[current_head], FeedDir), EndsWithJson)) = 2

====
